---- MODULE Spec2Model ----
(***************************************************************************)
(* Source Engine Query relay: the UDP query client and the batch           *)
(* orchestration of the two implementations of the repository,             *)
(*   "server" = src/server.js           (getServerInfo / getPlayers)       *)
(*   "part"   = src/unnamed/part_000    (queryServer / queryPlayers)       *)
(* Every event-loop callback is one action.  Promise continuations         *)
(* (microtasks) run before the next I/O event, as in Node.js.              *)
(***************************************************************************)
EXTENDS Integers, Sequences, FiniteSets, TLC

VARIABLES impl, endpoint, servers, qs, task, result, i, results, http, crashed,
          received, decoded

vars == <<impl, endpoint, servers, qs, task, result, i, results, http, crashed,
          received, decoded>>

(***************************************************************************)
(* Bounds of the model                                                     *)
(***************************************************************************)
\* number of specs in a batch request
NumSpecs == 3
\* the concurrency limit c of the batch window loop (5 in server.js:324,
\* 10 in part_000:274; the window loop is the same for every c >= 1)
Concurrency == 2

\* the largest count byte of a generated player response
MaxCount == 3
\* the number of entries a generated player response carries in full
NumEntries == 3

(***************************************************************************)
(* Bytes, buffers and text                                                 *)
(***************************************************************************)
Undefined == -1

\* buffer[k], 0-based; undefined outside the buffer
At(buffer, k) == IF k >= 0 /\ k < Len(buffer) THEN buffer[k + 1] ELSE Undefined

\* buffer.slice(start, end), 0-based, end exclusive, clamped to the buffer
Slice(buffer, start, end) ==
  LET e == IF end > Len(buffer) THEN Len(buffer) ELSE end
  IN IF start >= e THEN <<>> ELSE SubSeq(buffer, start + 1, e)

IsCont(b) == b >= 128 /\ b <= 191

\* Buffer.toString('utf8'): the UTF-16 code units of the decoded text.  An
\* ill-formed sequence decodes to U+FFFD per maximal subpart.
RECURSIVE Utf8From(_, _)
Utf8From(bytes, k) ==
  IF k >= Len(bytes) THEN <<>>
  ELSE
    LET b0 == At(bytes, k)
        b1 == At(bytes, k + 1)
        b2 == At(bytes, k + 2)
        b3 == At(bytes, k + 3)
        lo2 == IF b0 = 224 THEN 160 ELSE IF b0 = 240 THEN 144 ELSE 128
        hi2 == IF b0 = 237 THEN 159 ELSE IF b0 = 244 THEN 143 ELSE 191
        ok1 == b1 >= lo2 /\ b1 <= hi2
    IN
    IF b0 < 128 THEN <<b0>> \o Utf8From(bytes, k + 1)
    ELSE IF b0 >= 194 /\ b0 <= 223 THEN
      IF IsCont(b1)
        THEN <<(b0 % 32) * 64 + (b1 % 64)>> \o Utf8From(bytes, k + 2)
        ELSE <<65533>> \o Utf8From(bytes, k + 1)
    ELSE IF b0 >= 224 /\ b0 <= 239 THEN
      IF ok1 /\ IsCont(b2)
        THEN <<(b0 % 16) * 4096 + (b1 % 64) * 64 + (b2 % 64)>>
               \o Utf8From(bytes, k + 3)
      ELSE IF ok1 THEN <<65533>> \o Utf8From(bytes, k + 2)
      ELSE <<65533>> \o Utf8From(bytes, k + 1)
    ELSE IF b0 >= 240 /\ b0 <= 244 THEN
      IF ok1 /\ IsCont(b2) /\ IsCont(b3)
        THEN LET cp == (b0 % 8) * 262144 + (b1 % 64) * 4096
                         + (b2 % 64) * 64 + (b3 % 64) - 65536
             IN <<55296 + (cp \div 1024), 56320 + (cp % 1024)>>
                  \o Utf8From(bytes, k + 4)
      ELSE IF ok1 /\ IsCont(b2) THEN <<65533>> \o Utf8From(bytes, k + 3)
      ELSE IF ok1 THEN <<65533>> \o Utf8From(bytes, k + 2)
      ELSE <<65533>> \o Utf8From(bytes, k + 1)
    ELSE <<65533>> \o Utf8From(bytes, k + 1)

toString(bytes) == Utf8From(bytes, 0)

\* first position >= from holding 0x00, or buffer.length
RECURSIVE ScanZero(_, _)
ScanZero(buffer, from) ==
  IF from < Len(buffer) /\ At(buffer, from) # 0
    THEN ScanZero(buffer, from + 1)
    ELSE from

WhiteSpace == {9, 10, 11, 12, 13, 32, 160, 5760, 8232, 8233, 8239, 8287,
               12288, 65279} \cup (8192 .. 8202)

RECURSIVE TrimStart(_)
TrimStart(s) ==
  IF s # <<>> /\ Head(s) \in WhiteSpace THEN TrimStart(Tail(s)) ELSE s

RECURSIVE TrimEnd(_)
TrimEnd(s) ==
  IF s # <<>> /\ s[Len(s)] \in WhiteSpace
    THEN TrimEnd(SubSeq(s, 1, Len(s) - 1)) ELSE s

\* String.prototype.trim
trim(s) == TrimEnd(TrimStart(s))

\* buffer.readUInt16LE(offset)
readUInt16LE(buffer, offset) == At(buffer, offset) + 256 * At(buffer, offset + 1)

\* buffer.readInt32LE(offset): two's complement, 32 bits
readInt32LE(buffer, offset) ==
  LET b3 == At(buffer, offset + 3)
  IN At(buffer, offset) + 256 * At(buffer, offset + 1)
       + 65536 * At(buffer, offset + 2)
       + 16777216 * (IF b3 >= 128 THEN b3 - 256 ELSE b3)

\* buffer.readFloatLE(offset): the float is kept as its 32 bit pattern, read
\* as a signed integer
readFloatLE(buffer, offset) == readInt32LE(buffer, offset)

\* a float bit pattern that is falsy in JavaScript: +0, -0 or a NaN
FloatFalsy(bits) ==
  LET magnitude == IF bits < 0 THEN (bits + 2147483647) + 1 ELSE bits
  IN magnitude = 0 \/ magnitude > 2139095040

\* the text of a JavaScript string literal, as code units
UnknownServer == <<85, 110, 107, 110, 111, 119, 110, 32, 83, 101, 114, 118, 101, 114>>
UnknownMap == <<85, 110, 107, 110, 111, 119, 110, 32, 77, 97, 112>>
UnknownGame == <<85, 110, 107, 110, 111, 119, 110, 32, 71, 97, 109, 101>>
ParseErrorName == <<80, 97, 114, 115, 101, 32, 69, 114, 114, 111, 114>>
Unknown == <<85, 110, 107, 110, 111, 119, 110>>

\* x || d for a string
OrText(s, d) == IF s = <<>> THEN d ELSE s

Returned(v) == [ok |-> TRUE, value |-> v]
Thrown(msg) == [ok |-> FALSE, error |-> msg]

(***************************************************************************)
(* PacketCodec of src/server.js                                            *)
(***************************************************************************)
\* readString closure: the text from offset to the next 0x00 and the offset
\* after the terminator
readStringAt(data, offset) ==
  LET stop == ScanZero(data, offset)
  IN [str |-> toString(Slice(data, offset, stop)), next |-> stop + 1]

parseServerInfo(data) ==
  IF Len(data) < 6 \/ At(data, 4) # 73
    THEN Thrown("Invalid server info response")
    ELSE
      LET name == readStringAt(data, 6)
          map == readStringAt(data, name.next)
          folder == readStringAt(data, map.next)
          game == readStringAt(data, folder.next)
          offset == game.next
      IN IF offset + 7 > Len(data)
           THEN Returned([name |-> ParseErrorName, map |-> Unknown,
                          game |-> Unknown, players |-> 0, maxPlayers |-> 0,
                          bots |-> 0, appId |-> 0])
           ELSE Returned([name |-> OrText(name.str, UnknownServer),
                          map |-> OrText(map.str, UnknownMap),
                          game |-> OrText(game.str, UnknownGame),
                          players |-> At(data, offset + 2),
                          maxPlayers |-> At(data, offset + 3),
                          bots |-> At(data, offset + 4),
                          appId |-> readUInt16LE(data, offset)])

\* the for loop of parsePlayerInfo from entry k at the given offset
RECURSIVE PlayerInfoLoop(_, _, _, _, _)
PlayerInfoLoop(data, playerCount, k, offset, players) ==
  IF ~(k < playerCount /\ offset < Len(data)) THEN players
  ELSE
    LET index == At(data, offset)
        name == readStringAt(data, offset + 1)
        o == name.next
    IN IF o + 8 > Len(data) THEN players
       ELSE
         LET score == readInt32LE(data, o)
             duration == readFloatLE(data, o + 4)
             entry == [index |-> index, name |-> trim(name.str),
                       score |-> score,
                       duration |-> IF FloatFalsy(duration) THEN 0 ELSE duration]
         IN PlayerInfoLoop(data, playerCount, k + 1, o + 8,
                           IF name.str # <<>> THEN Append(players, entry)
                                              ELSE players)

parsePlayerInfo(data) ==
  IF Len(data) < 6 \/ At(data, 4) # 68
    THEN Thrown("Invalid player info response")
    ELSE Returned(PlayerInfoLoop(data, At(data, 6), 0, 7, <<>>))

(***************************************************************************)
(* PacketCodec of src/unnamed/part_000                                     *)
(***************************************************************************)
readString(buffer, offset) ==
  toString(Slice(buffer, offset, ScanZero(buffer, offset)))

\* `const name = this.readString(buffer, offset); offset += name.length + 1`:
\* the text read and the offset the caller goes on from
readStringAdvance(buffer, offset) ==
  [str |-> readString(buffer, offset),
   next |-> offset + Len(readString(buffer, offset)) + 1]

parseA2SInfo(buffer) ==
  LET name == readString(buffer, 5)
      o1 == 5 + Len(name) + 1
      map == readString(buffer, o1)
      o2 == o1 + Len(map) + 1
      folder == readString(buffer, o2)
      o3 == o2 + Len(folder) + 1
      game == readString(buffer, o3)
      offset == o3 + Len(game) + 1
  IN IF offset + 8 <= Len(buffer)
       THEN Returned([name |-> name, map |-> map, folder |-> folder,
                      game |-> game,
                      players |-> At(buffer, offset + 2),
                      maxPlayers |-> At(buffer, offset + 3),
                      protocol |-> At(buffer, offset + 1),
                      serverType |-> <<At(buffer, offset + 4)>>,
                      environment |-> <<At(buffer, offset + 5)>>])
       ELSE Returned([name |-> name, map |-> map, folder |-> folder,
                      game |-> game, players |-> 0, maxPlayers |-> 0])

\* the for loop of parseA2SPlayers from entry k at the given offset
RECURSIVE A2SPlayersLoop(_, _, _, _, _)
A2SPlayersLoop(buffer, playerCount, k, offset, players) ==
  IF ~(k < playerCount /\ offset < Len(buffer)) THEN players
  ELSE
    LET index == At(buffer, offset)
        name == readString(buffer, offset + 1)
        o == offset + 1 + Len(name) + 1
    IN IF o + 8 <= Len(buffer)
         THEN A2SPlayersLoop(buffer, playerCount, k + 1, o + 8,
                Append(players, [index |-> index, name |-> name,
                                 score |-> readInt32LE(buffer, o),
                                 duration |-> readFloatLE(buffer, o + 4)]))
         ELSE A2SPlayersLoop(buffer, playerCount, k + 1, o, players)

parseA2SPlayers(buffer) ==
  IF Len(buffer) < 6
    THEN Returned([players |-> <<>>])
    ELSE Returned([players |->
                     A2SPlayersLoop(buffer, At(buffer, 5), 0, 6, <<>>)])

(***************************************************************************)
(* Wire packets                                                            *)
(***************************************************************************)
Header == <<255, 255, 255, 255>>

\* FF FF FF FF 54 "Source Engine Query" 00
InfoRequest ==
  Header \o <<84>> \o <<83, 111, 117, 114, 99, 101, 32, 69, 110, 103, 105,
                        110, 101, 32, 81, 117, 101, 114, 121>> \o <<0>>

ChallengeRequest == Header \o <<85>> \o <<255, 255, 255, 255>>

PlayerRequest(challenge) == Header \o <<85>> \o challenge

\* datagrams a destination may answer with
InfoResponse ==
  Header \o <<73, 17, 83, 0, 109, 0, 102, 0, 103, 0, 240, 0, 16, 32, 0, 100, 108>>
ChallengeResponse == Header \o <<65, 1, 2, 3, 4>>
PlayersResponse ==
  Header \o <<68, 1, 1, 112, 0, 7, 0, 0, 0, 0, 0, 128, 63>>
ShortPlayersResponse == Header \o <<68, 0>>

Datagrams ==
  {InfoResponse, ChallengeResponse, PlayersResponse, ShortPlayersResponse}

\* the datagrams the destinations of a batch answer with
BatchDatagrams == {InfoResponse, ChallengeResponse, PlayersResponse}

(***************************************************************************)
(* One query: its socket, timer, promise and pending send                  *)
(***************************************************************************)
Kinds == {"info", "players"}

\* what dgram's send() takes: a port outside 1..65535 makes it throw
\* synchronously (ERR_SOCKET_BAD_PORT)
Ports == {27015, 70000}
BadPort(port) == ~(port \in 1 .. 65535)

TimeoutMsg == "Timeout"
BadPortMsg == "ERR_SOCKET_BAD_PORT"
\* err.message of an error the socket reports (send callback or 'error')
NetErrMsg == "ENETUNREACH"

\* the ip of a query: a literal address, which dgram sends to without a DNS
\* lookup, or a host name, whose lookup may take any time and may fail late
Addresses == <<"10.0.0.1", "10.0.0.2", "10.0.0.3", "10.0.0.4", "10.0.0.5">>
HostName == "game.example.org"
IsAddress(ip) == \E k \in DOMAIN Addresses : Addresses[k] = ip

\* the state of a query that has not been started
NoQuery ==
  [sock |-> "none", closes |-> 0, timer |-> "none", arms |-> 0,
   resolved |-> FALSE,
   step |-> "challenge", challengeReceived |-> FALSE, listening |-> FALSE,
   send |-> "none", sendCb |-> FALSE, sent |-> <<>>,
   promise |-> [state |-> "none", value |-> <<>>, error |-> <<>>,
               by |-> "none"],
   threw |-> FALSE]

\* dgram.createSocket('udp4') inside new Promise(...)
createSocket(r) ==
  [r EXCEPT !.sock = "open",
            !.promise = [state |-> "pending", value |-> <<>>, error |-> <<>>,
                         by |-> "none"]]

\* setTimeout(cb, timeout); arms counts the timers the query has armed
setTimeout(r) == [r EXCEPT !.timer = "armed", !.arms = @ + 1]

clearTimeout(r) ==
  [r EXCEPT !.timer = IF @ = "armed" THEN "cleared" ELSE @]

\* client.close(): throws ERR_SOCKET_DGRAM_NOT_RUNNING on a closed socket
close(r) ==
  IF r.sock = "open"
    THEN [r EXCEPT !.sock = "closed", !.closes = @ + 1]
    ELSE [r EXCEPT !.closes = @ + 1, !.threw = TRUE]

\* resolve(v) / reject(e): only the first settlement of a promise counts.
\* A promise holds its value or its rejection reason in a one-element tuple.
resolve(r, v, by) ==
  IF r.promise.state = "pending"
    THEN [r EXCEPT !.promise = [state |-> "resolved", value |-> <<v>>,
                                error |-> <<>>, by |-> by]]
    ELSE r

reject(r, e, by) ==
  IF r.promise.state = "pending"
    THEN [r EXCEPT !.promise = [state |-> "rejected", value |-> <<>>,
                                error |-> <<e>>, by |-> by]]
    ELSE r

\* client.send(packet, port, ip, cb) with a valid port: the datagram is
\* handed to the socket and completes later
send(r, packet, cb) ==
  [r EXCEPT !.sent = Append(@, packet), !.send = "pending", !.sendCb = cb]

\* statements after a close(): skipped when the close threw
AfterClose(r, then) == IF r.threw THEN r ELSE then

(***************************************************************************)
(* src/server.js: SourceQuery.getServerInfo and SourceQuery.getPlayers     *)
(***************************************************************************)
\* the promise executor up to the end of the try block, or its catch
getServerInfo(r, server) ==
  LET r1 == setTimeout(createSocket(r))
  IN IF BadPort(server.port)
       THEN LET r2 == close(clearTimeout(r1))
            IN AfterClose(r2, reject(r2, BadPortMsg, "sync"))
       ELSE [send(r1, InfoRequest, TRUE) EXCEPT !.listening = TRUE]

\* setTimeout callback
getServerInfo_timeout(r) ==
  LET r1 == close(r)
  IN AfterClose(r1, reject(r1, TimeoutMsg, "timer"))

\* client.send callback
getServerInfo_sendCb(r, err) ==
  IF err
    THEN LET r1 == close(clearTimeout(r))
         IN AfterClose(r1, reject(r1, NetErrMsg, "send"))
    ELSE r

\* client.on('message')
getServerInfo_message(r, data) ==
  LET r1 == close(clearTimeout(r))
      parsed == parseServerInfo(data)
  IN AfterClose(r1, IF parsed.ok
                      THEN resolve(r1, parsed.value, "message")
                      ELSE reject(r1, parsed.error, "message"))

\* client.on('error')
getServerInfo_error(r) ==
  LET r1 == close(clearTimeout(r))
  IN AfterClose(r1, reject(r1, NetErrMsg, "error"))

getPlayers(r, server) ==
  LET r1 == setTimeout(createSocket(r))
  IN IF BadPort(server.port)
       THEN LET r2 == close(clearTimeout(r1))
            IN AfterClose(r2, reject(r2, BadPortMsg, "sync"))
       ELSE [send(r1, ChallengeRequest, TRUE)
               EXCEPT !.listening = TRUE, !.challengeReceived = FALSE]

getPlayers_timeout(r) ==
  LET r1 == close(r)
  IN AfterClose(r1, reject(r1, TimeoutMsg, "timer"))

\* the callbacks of both client.send calls
getPlayers_sendCb(r, err) ==
  IF err
    THEN LET r1 == close(clearTimeout(r))
         IN AfterClose(r1, reject(r1, NetErrMsg, "send"))
    ELSE r

\* getPlayers_message without the challengeReceived flag: every long
\* datagram is answered with another PlayerRequest
getPlayers_message_resend(r, data) ==
  IF Len(data) >= 9
    THEN send(r, PlayerRequest(Slice(data, 5, 9)), TRUE)
    ELSE LET r1 == close(clearTimeout(r))
             parsed == parsePlayerInfo(data)
         IN AfterClose(r1, IF parsed.ok
                             THEN resolve(r1, parsed.value, "message")
                             ELSE reject(r1, parsed.error, "message"))

getPlayers_message(r, data) ==
  IF ~r.challengeReceived /\ Len(data) >= 9
    THEN send([r EXCEPT !.challengeReceived = TRUE],
              PlayerRequest(Slice(data, 5, 9)), TRUE)
    ELSE LET r1 == close(clearTimeout(r))
             parsed == parsePlayerInfo(data)
         IN AfterClose(r1, IF parsed.ok
                             THEN resolve(r1, parsed.value, "message")
                             ELSE reject(r1, parsed.error, "message"))

getPlayers_error(r) ==
  LET r1 == close(clearTimeout(r))
  IN AfterClose(r1, reject(r1, NetErrMsg, "error"))

(***************************************************************************)
(* src/unnamed/part_000: SourceQuery.queryServer and queryPlayers          *)
(***************************************************************************)
Failure(msg) == [success |-> FALSE, error |-> msg]
Success(data) == [success |-> TRUE, data |-> data]

\* the promise executor; an exception of client.send leaves it and rejects
\* the promise
queryServer(r, server) ==
  LET r1 == [setTimeout(createSocket(r))
               EXCEPT !.resolved = FALSE, !.listening = TRUE]
  IN IF BadPort(server.port)
       THEN reject(r1, BadPortMsg, "sync")
       ELSE send(r1, InfoRequest, TRUE)

queryServer_timeout(r) ==
  IF ~r.resolved
    THEN LET r1 == close([r EXCEPT !.resolved = TRUE])
         IN AfterClose(r1, resolve(r1, Failure(TimeoutMsg), "timer"))
    ELSE r

queryServer_error(r) ==
  IF ~r.resolved
    THEN LET r1 == close(clearTimeout([r EXCEPT !.resolved = TRUE]))
         IN AfterClose(r1, resolve(r1, Failure(NetErrMsg), "error"))
    ELSE r

queryServer_message(r, msg) ==
  IF ~r.resolved
    THEN LET r1 == close(clearTimeout([r EXCEPT !.resolved = TRUE]))
             parsed == parseA2SInfo(msg)
         IN AfterClose(r1, IF parsed.ok
                             THEN resolve(r1, Success(parsed.value), "message")
                             ELSE resolve(r1, Failure(parsed.error), "message"))
    ELSE r

queryServer_sendCb(r, err) ==
  IF err /\ ~r.resolved
    THEN LET r1 == close(clearTimeout([r EXCEPT !.resolved = TRUE]))
         IN AfterClose(r1, resolve(r1, Failure(NetErrMsg), "send"))
    ELSE r

queryPlayers(r, server) ==
  LET r1 == [setTimeout(createSocket(r))
               EXCEPT !.resolved = FALSE, !.step = "challenge",
                      !.listening = TRUE]
  IN IF BadPort(server.port)
       THEN reject(r1, BadPortMsg, "sync")
       ELSE send(r1, ChallengeRequest, TRUE)

queryPlayers_timeout(r) ==
  IF ~r.resolved
    THEN LET r1 == close([r EXCEPT !.resolved = TRUE])
         IN AfterClose(r1, resolve(r1, Failure(TimeoutMsg), "timer"))
    ELSE r

queryPlayers_error(r) ==
  IF ~r.resolved
    THEN LET r1 == close(clearTimeout([r EXCEPT !.resolved = TRUE]))
         IN AfterClose(r1, resolve(r1, Failure(NetErrMsg), "error"))
    ELSE r

\* queryPlayers_message with a timer per leg: the accepted challenge starts
\* a fresh timeout for the player response
queryPlayers_message_rearm(r, msg) ==
  IF r.resolved THEN r
  ELSE IF r.step = "challenge" THEN
    IF Len(msg) >= 9 /\ At(msg, 4) = 65
      THEN send(setTimeout(clearTimeout([r EXCEPT !.step = "players"])),
                PlayerRequest(Slice(msg, 5, 9)), FALSE)
      ELSE LET r1 == close(clearTimeout([r EXCEPT !.resolved = TRUE]))
           IN AfterClose(r1, resolve(r1, Failure("Invalid challenge response"),
                                     "message"))
  ELSE IF r.step = "players" THEN
    LET r1 == close(clearTimeout([r EXCEPT !.resolved = TRUE]))
        parsed == parseA2SPlayers(msg)
    IN AfterClose(r1, IF parsed.ok
                        THEN resolve(r1, Success(parsed.value), "message")
                        ELSE resolve(r1, Failure(parsed.error), "message"))
  ELSE r

queryPlayers_message(r, msg) ==
  IF r.resolved THEN r
  ELSE IF r.step = "challenge" THEN
    IF Len(msg) >= 9 /\ At(msg, 4) = 65
      THEN send([r EXCEPT !.step = "players"],
                PlayerRequest(Slice(msg, 5, 9)), FALSE)
      ELSE LET r1 == close(clearTimeout([r EXCEPT !.resolved = TRUE]))
           IN AfterClose(r1, resolve(r1, Failure("Invalid challenge response"),
                                     "message"))
  ELSE IF r.step = "players" THEN
    LET r1 == close(clearTimeout([r EXCEPT !.resolved = TRUE]))
        parsed == parseA2SPlayers(msg)
    IN AfterClose(r1, IF parsed.ok
                        THEN resolve(r1, Success(parsed.value), "message")
                        ELSE resolve(r1, Failure(parsed.error), "message"))
  ELSE r

\* the callback of the challenge request's client.send
queryPlayers_sendCb(r, err) ==
  IF err /\ ~r.resolved
    THEN LET r1 == close(clearTimeout([r EXCEPT !.resolved = TRUE]))
         IN AfterClose(r1, resolve(r1, Failure(NetErrMsg), "send"))
    ELSE r

(***************************************************************************)
(* Dispatch of an event of query q = <<n, kind>> to the callback the       *)
(* implementation registered for it                                        *)
(***************************************************************************)
StartQuery(q, r, server) ==
  IF impl = "server"
    THEN IF q[2] = "info" THEN getServerInfo(r, server) ELSE getPlayers(r, server)
    ELSE IF q[2] = "info" THEN queryServer(r, server) ELSE queryPlayers(r, server)

OnTimeout(q, r) ==
  IF impl = "server"
    THEN IF q[2] = "info" THEN getServerInfo_timeout(r) ELSE getPlayers_timeout(r)
    ELSE IF q[2] = "info" THEN queryServer_timeout(r) ELSE queryPlayers_timeout(r)

OnSendCb(q, r, err) ==
  IF impl = "server"
    THEN IF q[2] = "info" THEN getServerInfo_sendCb(r, err)
                          ELSE getPlayers_sendCb(r, err)
    ELSE IF q[2] = "info" THEN queryServer_sendCb(r, err)
                          ELSE queryPlayers_sendCb(r, err)

OnMessage(q, r, data) ==
  IF impl = "server"
    THEN IF q[2] = "info" THEN getServerInfo_message(r, data)
                          ELSE getPlayers_message(r, data)
    ELSE IF q[2] = "info" THEN queryServer_message(r, data)
                          ELSE queryPlayers_message(r, data)

OnError(q, r) ==
  IF impl = "server"
    THEN IF q[2] = "info" THEN getServerInfo_error(r) ELSE getPlayers_error(r)
    ELSE IF q[2] = "info" THEN queryServer_error(r) ELSE queryPlayers_error(r)

(***************************************************************************)
(* JavaScript values of a result object                                    *)
(***************************************************************************)
Null == [t |-> "null"]
Absent == [t |-> "undefined"]
Val(v) == [t |-> "val", v |-> v]

Specs == 1 .. Len(servers)
QIds == Specs \X Kinds

Settled(q) == qs[q].promise.state \in {"resolved", "rejected"}

(***************************************************************************)
(* The per-spec task of the endpoints                                      *)
(***************************************************************************)
\* src/server.js: the result object a task starts from
NewResult(n) ==
  IF endpoint = "batch"
    THEN [id |-> servers[n].id, ip |-> servers[n].ip, port |-> servers[n].port,
          serverInfo |-> Null, players |-> Null,
          errors |-> [serverInfo |-> Absent, players |-> Absent]]
    ELSE [ip |-> servers[n].ip, port |-> servers[n].port,
          serverInfo |-> Null, players |-> Null,
          errors |-> [serverInfo |-> Absent, players |-> Absent]]

\* src/unnamed/part_000: the result object built from the two outcomes
PartResult(n, serverInfo, playerInfo) ==
  LET body == [serverInfo |-> IF serverInfo.success
                                THEN Val(serverInfo.data) ELSE Null,
               players |-> IF playerInfo.success
                             THEN Val(playerInfo.data.players) ELSE Val(<<>>),
               errors |-> [serverInfo |-> IF serverInfo.success
                                            THEN Null ELSE Val(serverInfo.error),
                           players |-> IF playerInfo.success
                                         THEN Null ELSE Val(playerInfo.error)]]
  IN IF endpoint = "batch"
       THEN [id |-> servers[n].id, ip |-> servers[n].ip,
             port |-> servers[n].port, serverInfo |-> body.serverInfo,
             players |-> body.players, errors |-> body.errors]
       ELSE body

\* the synchronous part of one task: up to its first await
LaunchTask(n, Q) ==
  IF impl = "server"
    THEN [Q EXCEPT ![<<n, "info">>] =
            StartQuery(<<n, "info">>, NoQuery, servers[n])]
    ELSE [Q EXCEPT ![<<n, "info">>] =
                     StartQuery(<<n, "info">>, NoQuery, servers[n]),
                   ![<<n, "players">>] =
                     StartQuery(<<n, "players">>, NoQuery, servers[n])]

RECURSIVE LaunchAll(_, _)
LaunchAll(S, Q) ==
  IF S = {} THEN Q
  ELSE LET n == CHOOSE m \in S : \A k \in S : m <= k
       IN LaunchAll(S \ {n}, LaunchTask(n, Q))

\* a window one spec too wide: servers.slice(i, i + c + 1)
WindowTooWide(from) ==
  {n \in Specs : n > from /\ n <= from + Concurrency + 1}

\* servers.slice(i, i + c) as spec numbers
Window(from) ==
  {n \in Specs : n > from /\ n <= from + Concurrency}

Awaiting == IF impl = "server" THEN "info" ELSE "both"

\* src/server.js: the continuation of `await query.getServerInfo(...)`,
\* which records the outcome and runs the executor of getPlayers
TaskAfterInfo(n) ==
  /\ ~crashed
  /\ impl = "server"
  /\ task[n] = "info"
  /\ Settled(<<n, "info">>)
  /\ LET p == qs[<<n, "info">>].promise
     IN result' = [result EXCEPT ![n] =
                     IF p.state = "resolved"
                       THEN [@ EXCEPT !.serverInfo = Val(p.value[1])]
                       ELSE [@ EXCEPT !.errors.serverInfo = Val(p.error[1])]]
  /\ qs' = [qs EXCEPT ![<<n, "players">>] =
              StartQuery(<<n, "players">>, NoQuery, servers[n])]
  /\ task' = [task EXCEPT ![n] = "players"]
  /\ UNCHANGED <<received, decoded, impl, endpoint, servers, i, results, http, crashed>>

\* src/server.js: the continuation of `await query.getPlayers(...)`
TaskAfterPlayers(n) ==
  /\ ~crashed
  /\ impl = "server"
  /\ task[n] = "players"
  /\ Settled(<<n, "players">>)
  /\ LET p == qs[<<n, "players">>].promise
     IN result' = [result EXCEPT ![n] =
                     IF p.state = "resolved"
                       THEN [@ EXCEPT !.players = Val(p.value[1])]
                       ELSE [@ EXCEPT !.errors.players = Val(p.error[1])]]
  /\ task' = [task EXCEPT ![n] = "done"]
  /\ UNCHANGED <<received, decoded, impl, endpoint, servers, qs, i, results, http, crashed>>

\* src/unnamed/part_000: the continuation of
\* `await Promise.all([queryServer(...), queryPlayers(...)])`
TaskJoin(n) ==
  /\ ~crashed
  /\ impl = "part"
  /\ task[n] = "both"
  /\ LET a == qs[<<n, "info">>].promise
         b == qs[<<n, "players">>].promise
     IN \/ /\ a.state = "rejected" \/ b.state = "rejected"
           /\ task' = [task EXCEPT ![n] = "rejected"]
           /\ UNCHANGED result
        \/ /\ a.state = "resolved" /\ b.state = "resolved"
           /\ task' = [task EXCEPT ![n] = "done"]
           /\ result' = [result EXCEPT ![n] = PartResult(n, a.value[1], b.value[1])]
  /\ UNCHANGED <<received, decoded, impl, endpoint, servers, qs, i, results, http, crashed>>

(***************************************************************************)
(* Promise continuations run before the event loop takes the next event    *)
(***************************************************************************)
TaskReady(n) ==
  \/ task[n] = "info" /\ Settled(<<n, "info">>)
  \/ task[n] = "players" /\ Settled(<<n, "players">>)
  \/ /\ task[n] = "both"
     /\ \/ qs[<<n, "info">>].promise.state = "rejected"
        \/ qs[<<n, "players">>].promise.state = "rejected"
        \/ Settled(<<n, "info">>) /\ Settled(<<n, "players">>)

\* Promise.any in place of Promise.all: one returned task is enough
AnyDone(W) == \E n \in W : task[n] = "done"

\* Promise.all(batchPromises) is fulfilled: every task of the window returned
AllDone(W) == \A n \in W : task[n] = "done"

\* Promise.all(batchPromises) is rejected: a task of the window threw
AnyRejected(W) == \E n \in W : task[n] = "rejected"

AllSettled(W) == AnyRejected(W) \/ AllDone(W)

MicrotaskReady ==
  \/ \E n \in Specs : TaskReady(n)
  \/ http = "awaiting" /\ AllSettled(IF endpoint = "batch" THEN Window(i) ELSE {1})

EventLoopIdle == ~crashed /\ ~MicrotaskReady

\* to a literal address the send completes in the loop iteration that
\* issued it, before any timer, datagram or socket error of the query
SendSettledFirst(q) ==
  IsAddress(servers[q[1]].ip) => qs[q].send # "pending"

(***************************************************************************)
(* Events of one query                                                     *)
(***************************************************************************)
\* the timeout timer of query q fires
TimerFire(q) ==
  /\ EventLoopIdle
  /\ qs[q].timer = "armed"
  /\ SendSettledFirst(q)
  /\ qs' = [qs EXCEPT ![q] = OnTimeout(q, [@ EXCEPT !.timer = "fired"])]
  /\ crashed' = qs'[q].threw
  /\ UNCHANGED <<received, decoded, impl, endpoint, servers, task, result, i, results, http>>

\* a pending send of query q completes, with or without an error: the
\* callback runs if one was passed, otherwise an error is emitted as 'error'.
\* On a closed socket only a failure is still reported.
SendDone(q, err) ==
  /\ EventLoopIdle
  /\ qs[q].send = "pending"
  /\ err \/ qs[q].sock = "open"
  /\ LET r == [qs[q] EXCEPT !.send = IF err THEN "err" ELSE "ok"]
     IN qs' = [qs EXCEPT ![q] =
                 IF r.sendCb THEN OnSendCb(q, r, err)
                 ELSE IF err THEN OnError(q, r)
                 ELSE r]
  /\ crashed' = qs'[q].threw
  /\ UNCHANGED <<received, decoded, impl, endpoint, servers, task, result, i, results, http>>

\* a datagram arrives on the open socket of query q after its request left
Message(q, data) ==
  /\ EventLoopIdle
  /\ qs[q].sock = "open"
  /\ qs[q].listening
  /\ qs[q].send = "ok"
  /\ qs' = [qs EXCEPT ![q] = OnMessage(q, @, data)]
  /\ crashed' = qs'[q].threw
  /\ UNCHANGED <<received, decoded, impl, endpoint, servers, task, result, i, results, http>>

\* the open, bound socket of query q emits 'error'
ErrorEvent(q) ==
  /\ EventLoopIdle
  /\ qs[q].sock = "open"
  /\ qs[q].listening
  /\ qs[q].send \in {"pending", "ok"}
  /\ SendSettledFirst(q)
  /\ qs' = [qs EXCEPT ![q] = OnError(q, @)]
  /\ crashed' = qs'[q].threw
  /\ UNCHANGED <<received, decoded, impl, endpoint, servers, task, result, i, results, http>>

(***************************************************************************)
(* POST /query-server                                                      *)
(***************************************************************************)
QueryServerStart ==
  /\ endpoint = "single"
  /\ http = "received"
  /\ qs' = LaunchTask(1, qs)
  /\ task' = [task EXCEPT ![1] = Awaiting]
  /\ result' = [result EXCEPT ![1] = IF impl = "server" THEN NewResult(1) ELSE @]
  /\ http' = "awaiting"
  /\ UNCHANGED <<received, decoded, impl, endpoint, servers, i, results, crashed>>

\* res.json(result), or the catch of part_000 answering 500
QueryServerRespond ==
  /\ ~crashed
  /\ endpoint = "single"
  /\ http = "awaiting"
  /\ \/ task[1] = "done" /\ http' = "responded"
     \/ task[1] = "rejected" /\ http' = "error500"
  /\ UNCHANGED <<received, decoded, impl, endpoint, servers, qs, task, result, i, results, crashed>>

(***************************************************************************)
(* POST /query-batch                                                       *)
(***************************************************************************)
\* A query whose promise was consumed and that holds no open socket, armed
\* timer or pending send has no callback left to run: nothing refers to it
\* once the results of its window are pushed, and it is dropped.
Dead(r) ==
  /\ r.promise.state \in {"resolved", "rejected"}
  /\ r.sock = "closed"
  /\ r.timer # "armed"
  /\ r.send # "pending"

Collect(W, Q) ==
  [q \in DOMAIN Q |-> IF q[1] \in W /\ Dead(Q[q]) THEN NoQuery ELSE Q[q]]

\* batch.map(async (server) => ...) over the window starting at `from`
StartWindow(from) ==
  /\ qs' = LaunchAll(Window(from), Collect(Window(i), qs))
  /\ task' = [n \in Specs |-> IF n \in Window(from) THEN Awaiting ELSE task[n]]
  /\ result' = [n \in Specs |->
                  IF n \in Window(from) /\ impl = "server"
                    THEN NewResult(n) ELSE result[n]]

\* the results of a window, last spec first
RECURSIVE InReverseOrder(_)
InReverseOrder(S) ==
  IF S = {} THEN <<>>
  ELSE LET n == CHOOSE m \in S : \A k \in S : m >= k
       IN <<result[n]>> \o InReverseOrder(S \ {n})

\* batchResults: Promise.all keeps the order of batch.map
RECURSIVE InOrder(_)
InOrder(S) ==
  IF S = {} THEN <<>>
  ELSE LET n == CHOOSE m \in S : \A k \in S : m <= k
       IN <<result[n]>> \o InOrder(S \ {n})

\* the first iteration of the window loop
QueryBatchStart ==
  /\ endpoint = "batch"
  /\ http = "received"
  /\ StartWindow(0)
  /\ http' = "awaiting"
  /\ UNCHANGED <<received, decoded, impl, endpoint, servers, i, results, crashed>>

\* src/server.js: the continuation of `await Promise.all(batchPromises)`:
\* push the results and run the next iteration, or answer
ServerWindowDone ==
  /\ ~crashed
  /\ impl = "server"
  /\ endpoint = "batch"
  /\ http = "awaiting"
  /\ AllDone(Window(i))
  /\ results' = results \o InOrder(Window(i))
  /\ i' = i + Concurrency
  /\ IF i' < Len(servers)
       THEN StartWindow(i') /\ UNCHANGED http
       ELSE http' = "responded" /\ UNCHANGED <<qs, task, result>>
  /\ UNCHANGED <<received, decoded, impl, endpoint, servers, crashed>>

\* src/unnamed/part_000: the continuation of `await Promise.all(batchPromises)`:
\* push the results, then pause 100 ms or answer; a rejected task rejects
\* the handler
PartWindowDone ==
  /\ ~crashed
  /\ impl = "part"
  /\ endpoint = "batch"
  /\ http = "awaiting"
  /\ \/ /\ AnyRejected(Window(i))
        /\ http' = "rejected"
        /\ UNCHANGED <<i, results>>
     \/ /\ AllDone(Window(i))
        /\ results' = results \o InOrder(Window(i))
        /\ IF i + Concurrency < Len(servers)
             THEN http' = "delay" /\ UNCHANGED i
             ELSE http' = "responded" /\ i' = i + Concurrency
  /\ UNCHANGED <<received, decoded, impl, endpoint, servers, qs, task, result, crashed>>

\* src/unnamed/part_000: the 100 ms pause between two windows ends
DelayFire ==
  /\ EventLoopIdle
  /\ http = "delay"
  /\ i' = i + Concurrency
  /\ StartWindow(i')
  /\ http' = "awaiting"
  /\ UNCHANGED <<received, decoded, impl, endpoint, servers, results, crashed>>

(***************************************************************************)
(* Specifications                                                          *)
(***************************************************************************)
ServerSpec(n, ip, port) == [id |-> 100 + n, ip |-> ip, port |-> port]

InitCommon ==
  /\ impl \in {"server", "part"}
  /\ qs = [q \in QIds |-> NoQuery]
  /\ task = [n \in Specs |-> "idle"]
  /\ result = [n \in Specs |-> Null]
  /\ i = 0
  /\ results = <<>>
  /\ http = "received"
  /\ crashed = FALSE

\* one POST /query-server request
Init ==
  /\ endpoint = "single"
  /\ servers \in {<<ServerSpec(1, ip, p)>> :
                    ip \in {Addresses[1], HostName}, p \in Ports}
  /\ InitCommon
  /\ received = <<>>
  /\ decoded = <<>>

\* one POST /query-batch request of NumSpecs servers
BatchInit ==
  /\ endpoint = "batch"
  /\ servers \in {[n \in 1 .. NumSpecs |->
                      ServerSpec(n, Addresses[n], ports[n])] :
                    ports \in [1 .. NumSpecs -> Ports]}
  /\ InitCommon
  /\ received = <<>>
  /\ decoded = <<>>

QueryEvent ==
  \E q \in QIds :
    \/ TimerFire(q)
    \/ \E err \in BOOLEAN : SendDone(q, err)
    \/ \E data \in Datagrams : Message(q, data)
    \/ ErrorEvent(q)

BatchQueryEvent ==
  \E q \in QIds :
    \/ TimerFire(q)
    \/ \E err \in BOOLEAN : SendDone(q, err)
    \/ \E data \in BatchDatagrams : Message(q, data)
    \/ ErrorEvent(q)

TaskStep ==
  \E n \in Specs :
    \/ TaskAfterInfo(n)
    \/ TaskAfterPlayers(n)
    \/ TaskJoin(n)

Next ==
  \/ QueryServerStart
  \/ QueryServerRespond
  \/ QueryEvent
  \/ TaskStep

BatchNext ==
  \/ QueryBatchStart
  \/ ServerWindowDone
  \/ PartWindowDone
  \/ DelayFire
  \/ BatchQueryEvent
  \/ TaskStep

Spec == Init /\ [][Next]_vars

\* The event loop runs every ready continuation, every pending send
\* completes and every armed timer fires.
Fairness ==
  /\ WF_vars(QueryServerStart)
  /\ WF_vars(QueryServerRespond)
  /\ WF_vars(TaskStep)
  /\ \A k \in Kinds :
       /\ WF_vars(TimerFire(<<1, k>>))
       /\ WF_vars(\E err \in BOOLEAN : SendDone(<<1, k>>, err))

LiveSpec == Init /\ [][Next]_vars /\ Fairness

BatchSpec == BatchInit /\ [][BatchNext]_vars

(***************************************************************************)
(* The decoders applied to one received buffer                             *)
(***************************************************************************)
\* field contents: "", "S", "e-acute" (two bytes, one character), " a"
Texts == {<<>>, <<83>>, <<195, 169>>, <<32, 97>>}

\* the type bytes of generated responses: 'I', 'D', 'A'
InfoType == 73
PlayersType == 68
Types == {InfoType, PlayersType, 65}

\* FF FF FF FF <type> <protocol> name 00 map 00 "f" 00 "g" 00 and eight
\* bytes of numeric fields
InfoPacket(type, name, map) ==
  Header \o <<type, 17>> \o name \o <<0>> \o map \o <<0>> \o <<102, 0>>
    \o <<103, 0>> \o <<240, 0, 16, 32, 0, 100, 108, 0>>

\* <index> name 00 <score int32> <duration float32 = 1.0>
Entry(index, name, score) ==
  <<index>> \o name \o <<0>> \o <<score, 0, 0, 0>> \o <<0, 0, 128, 63>>

RECURSIVE Entries(_, _, _)
Entries(k, first, name) ==
  IF k > NumEntries THEN <<>>
  ELSE Entry(first + k - 1, IF k = 1 THEN name ELSE <<97 + k>>, 6 + k)
         \o Entries(k + 1, first, name)

\* FF FF FF FF <type> <count> and NumEntries entries
PlayersPacket(type, count, first, name) ==
  Header \o <<type, count>> \o Entries(1, first, name)

Prefixes(packet) == {SubSeq(packet, 1, k) : k \in 0 .. Len(packet)}

\* what a socket may deliver: every response and every truncation of it
Buffers ==
  UNION ({Prefixes(InfoPacket(type, name, map)) :
            type \in Types, name \in Texts, map \in {<<109>>, <<195, 169>>}}
         \cup {Prefixes(PlayersPacket(type, count, first, name)) :
                 type \in Types, count \in 0 .. MaxCount, first \in {0, 1},
                 name \in Texts})

\* this.parseServerInfo(data) / this.parseA2SInfo(msg)
ParseInfo ==
  /\ endpoint = "codec"
  /\ decoded = <<>>
  /\ decoded' = <<[fn |-> "info",
                   out |-> IF impl = "server" THEN parseServerInfo(received)
                                              ELSE parseA2SInfo(received)]>>
  /\ UNCHANGED <<received, impl, endpoint, servers, qs, task, result, i, results,
                 http, crashed>>

\* this.parsePlayerInfo(data) / this.parseA2SPlayers(msg)
ParsePlayers ==
  /\ endpoint = "codec"
  /\ decoded = <<>>
  /\ decoded' = <<[fn |-> "players",
                   out |-> IF impl = "server" THEN parsePlayerInfo(received)
                                              ELSE parseA2SPlayers(received)]>>
  /\ UNCHANGED <<received, impl, endpoint, servers, qs, task, result, i, results,
                 http, crashed>>

\* the offsets at which the decoders read their first string
StringOffsets == {5, 6, 7}

\* one string field is read at the given offset
ReadString(offset) ==
  /\ endpoint = "codec"
  /\ decoded = <<>>
  /\ offset <= Len(received)
  /\ LET read == IF impl = "server" THEN readStringAt(received, offset)
                                    ELSE readStringAdvance(received, offset)
     IN decoded' = <<[fn |-> "string", offset |-> offset, str |-> read.str,
                      next |-> read.next]>>
  /\ UNCHANGED <<received, impl, endpoint, servers, qs, task, result, i, results,
                 http, crashed>>

\* one received received, handed to a decoder
CodecInit ==
  /\ endpoint = "codec"
  /\ servers = <<>>
  /\ InitCommon
  /\ received \in Buffers
  /\ decoded = <<>>

CodecNext ==
  \/ ParseInfo
  \/ ParsePlayers
  \/ \E offset \in StringOffsets : ReadString(offset)

CodecSpec == CodecInit /\ [][CodecNext]_vars

(***************************************************************************)
(* Outcomes of a query, as its caller sees them                            *)
(***************************************************************************)
ChallengeRejectedMsg == "Invalid challenge response"

\* the promise p delivered the error msg: as the error of a result value
\* (part_000) or as the reason of a rejection
FailedWith(p, msg) ==
  \/ p.state = "rejected" /\ p.error = <<msg>>
  \/ p.state = "resolved" /\ impl = "part" /\ ~p.value[1].success
       /\ p.value[1].error = msg

\* the promise p delivered a decoded value
Succeeded(p) ==
  p.state = "resolved" /\ (impl = "part" => p.value[1].success)

Pending(q) == qs[q].promise.state = "pending"


(***************************************************************************)
(* Claims                                                                  *)
(***************************************************************************)

\* C1: the UDP socket of every query is closed exactly once: it has been
\* closed once the query has settled, and close() is never called a second
\* time on it.
C1_ClosedExactlyOnce ==
  \A q \in QIds :
    /\ qs[q].closes <= 1
    /\ Settled(q) => qs[q].closes = 1

\* C2: every started query eventually settles, and a query that the timer
\* settles (no datagram, no transport error came first) ends with the
\* Timeout error and a closed socket.
C2_EveryQuerySettles ==
  /\ \A k \in Kinds : Pending(<<1, k>>) ~> Settled(<<1, k>>)
  /\ [][\A k \in Kinds :
         (Pending(<<1, k>>) /\ qs[<<1, k>>].timer = "armed"
            /\ qs'[<<1, k>>].timer = "fired") =>
           (FailedWith(qs'[<<1, k>>].promise, TimeoutMsg)
              /\ qs'[<<1, k>>].sock = "closed")]_vars

\* C3: the player query arms one timer when it starts and never arms
\* another, accepting the challenge leaves that timer as it is, and when it
\* fires while the query waits for the player response the query ends with
\* the Timeout error.
C3_SingleTimerSpansBothLegs ==
  [][\A q \in QIds :
       q[2] = "players" =>
         /\ qs'[q].arms <= 1
         /\ (Len(qs[q].sent) = 1 /\ Len(qs'[q].sent) = 2) =>
              (qs'[q].timer = qs[q].timer /\ qs'[q].arms = qs[q].arms)
         /\ (Pending(q) /\ Len(qs[q].sent) = 2 /\ qs[q].timer = "armed"
               /\ qs'[q].timer = "fired") =>
              (FailedWith(qs'[q].promise, TimeoutMsg)
                 /\ qs'[q].promise.by = "timer")]_vars

\* the timer fired after the PlayerRequest was sent and the query ended with
\* Timeout
C3_Witness ==
  \E q \in QIds :
    /\ q[2] = "players"
    /\ Len(qs[q].sent) = 2
    /\ qs[q].timer = "fired"
    /\ qs[q].arms = 1
    /\ FailedWith(qs[q].promise, TimeoutMsg)

\* C4: while the player query awaits the challenge, a datagram whose type
\* byte is not 0x41 ends it with the challenge-rejected error, whatever its
\* length, and no PlayerRequest is sent.
C4_StrictChallengeType ==
  [][\A q \in QIds : \A data \in Datagrams :
       (/\ q[2] = "players"
        /\ Pending(q)
        /\ Len(qs[q].sent) = 1
        /\ At(data, 4) # 65
        /\ Message(q, data)) =>
         (/\ Len(qs'[q].sent) = 1
          /\ FailedWith(qs'[q].promise, ChallengeRejectedMsg))]_vars

\* C10: every fault of a query reaches the caller as an error value of the
\* query's result: no query promise is rejected and no callback throws.
C10_FaultsAreValues ==
  /\ ~crashed
  /\ \A q \in QIds : qs[q].promise.state # "rejected" /\ ~qs[q].threw

\* C5: the output of a batch has one result per input spec, and its i-th
\* result carries the id, ip and port of the i-th spec, whatever the order
\* in which the queries complete.
C5_OrderPreserved ==
  /\ Len(results) <= Len(servers)
  /\ \A k \in 1 .. Len(results) :
       /\ results[k].id = servers[k].id
       /\ results[k].ip = servers[k].ip
       /\ results[k].port = servers[k].port
  /\ http = "responded" /\ endpoint = "batch" => Len(results) = Len(servers)

\* a batch answered with one result per spec
C5_Witness ==
  /\ endpoint = "batch"
  /\ http = "responded"
  /\ Len(results) = NumSpecs
  /\ \A k \in 1 .. NumSpecs : results[k].id = 100 + k

\* C6: whatever way the sub-queries of a spec fail, the batch completes:
\* no task and no handler ends with an exception, and the process lives.
C6_BatchAlwaysCompletes ==
  /\ ~crashed
  /\ http # "rejected"
  /\ \A n \in Specs : task[n] # "rejected"

OpenSockets == {q \in QIds : qs[q].sock = "open"}

\* C7: at every instant of a batch run at most 2 * c sockets are open.
C7_BoundedSockets == Cardinality(OpenSockets) <= 2 * Concurrency

\* 2 * c sockets are open at once
C7_Witness ==
  endpoint = "batch" /\ Cardinality(OpenSockets) = 2 * Concurrency

WindowOf(n) == (n - 1) \div Concurrency

Started(n) ==
  \/ task[n] # "idle"
  \/ \E k \in Kinds : qs[<<n, k>>].sock # "none" \/ qs[<<n, k>>].sent # <<>>

Finished(n) ==
  /\ task[n] = "done"
  /\ \A k \in Kinds : ~Pending(<<n, k>>) /\ qs[<<n, k>>].sock # "open"

Running(n) == task[n] \in {"info", "players", "both"}

\* C8: windows are consecutive slices of at most c specs, and no query of a
\* window starts before every sub-query of every earlier window has settled.
C8_WindowBarrier ==
  /\ \A n \in Specs : \A m \in Specs :
       (WindowOf(n) < WindowOf(m) /\ Started(m)) => Finished(n)
  /\ \A n \in Specs : \A m \in Specs :
       (Running(n) /\ Running(m)) => WindowOf(n) = WindowOf(m)
  /\ Cardinality({n \in Specs : Running(n)}) <= Concurrency

\* the last spec of a batch of more than c specs is running
C8_Witness ==
  /\ endpoint = "batch"
  /\ NumSpecs > Concurrency
  /\ Running(NumSpecs)
  /\ qs[<<NumSpecs, "info">>].sock = "open"

\* what the result object of spec n says about the outcome p of a sub-query
Reports(value, error, p) ==
  IF Succeeded(p)
    THEN value.t = "val" /\ error.t # "val"
    ELSE error.t = "val" /\ FailedWith(p, error.v)

\* C9: the two sub-queries of a server are independent: a failed info query
\* does not keep the player query from running and from being reported,
\* and a failed player query leaves a successful info result in place.
C9_SubQueriesIndependent ==
  /\ ~crashed
  /\ http # "error500"
  /\ \A n \in Specs :
       /\ task[n] # "rejected"
       /\ task[n] = "done" =>
            /\ Reports(result[n].serverInfo, result[n].errors.serverInfo,
                       qs[<<n, "info">>].promise)
            /\ Reports(result[n].players, result[n].errors.players,
                       qs[<<n, "players">>].promise)

\* the requests a query has sent are a prefix of the one exchange of its
\* kind
OneExchange(q, sent) ==
  IF q[2] = "info"
    THEN sent \in {<<>>, <<InfoRequest>>}
    ELSE \/ sent \in {<<>>, <<ChallengeRequest>>}
         \/ /\ Len(sent) = 2
            /\ sent[1] = ChallengeRequest
            /\ Len(sent[2]) = 9
            /\ SubSeq(sent[2], 1, 5) = Header \o <<85>>

\* C11: no request is retried: an info query sends one InfoRequest, a
\* player query at most one ChallengeRequest and then at most one
\* PlayerRequest, whatever datagrams, timer and error events arrive, and a
\* query that has settled (timeout, malformed response, ...) sends nothing
\* further.
C11_NoRetry ==
  [][\A q \in QIds :
       /\ OneExchange(q, qs'[q].sent)
       /\ (qs'[q].sock # "none" /\ ~BadPort(servers[q[1]].port)) =>
            qs'[q].sent # <<>>
       /\ Settled(q) => qs'[q].sent = qs[q].sent]_vars

\* a player query went through both requests and was ended by the datagram
\* that followed
C11_Witness ==
  \E q \in QIds :
    /\ q[2] = "players"
    /\ qs[q].sent = <<ChallengeRequest, PlayerRequest(<<1, 2, 3, 4>>)>>
    /\ Settled(q)
    /\ qs[q].promise.by = "message"

\* the decoder fn has been applied to the received buffer
Decoded(fn) == Len(decoded) = 1 /\ decoded[1].fn = fn

ExpectedType(fn) == IF fn = "info" THEN InfoType ELSE PlayersType

\* C12: a received buffer that is shorter than 5 bytes, or whose type byte
\* at offset 4 is not the expected one (0x49 for the info decoder, 0x44 for
\* the player decoder), is never decoded into a ServerInfo or a player
\* list: the decoder answers with the malformed-response error.
C12_MalformedHeaderRejected ==
  \A fn \in {"info", "players"} :
    (/\ Decoded(fn)
     /\ Len(received) < 5 \/ At(received, 4) # ExpectedType(fn)) =>
      ~decoded[1].out.ok

\* the complete entries of a player response, read byte by byte from the
\* given offset: at most n entries, each an index byte, a name up to its
\* 0x00 and 8 bytes of score and duration
RECURSIVE CompleteEntries(_, _, _)
CompleteEntries(data, offset, n) ==
  LET stop == ScanZero(data, offset + 1)
  IN IF n = 0 \/ stop + 1 + 8 > Len(data) THEN <<>>
     ELSE <<[index |-> At(data, offset), score |-> readInt32LE(data, stop + 1)]>>
            \o CompleteEntries(data, stop + 9, n - 1)

\* the player list a decoder returned
PlayerList == IF impl = "server" THEN decoded[1].out.value
                                 ELSE decoded[1].out.value.players

\* C13: a player response with count byte n at offset 5 that holds k <= n
\* complete entries from offset 6 on, possibly followed by a truncated one,
\* decodes without error into exactly those k entries, in packet order.
C13_CompleteEntriesOnly ==
  (/\ Decoded("players")
   /\ Len(received) >= 6
   /\ At(received, 4) = PlayersType) =>
    /\ decoded[1].out.ok
    /\ LET expected == CompleteEntries(received, 6, At(received, 5))
       IN /\ Len(PlayerList) = Len(expected)
          /\ \A k \in 1 .. Len(expected) :
               /\ PlayerList[k].index = expected[k].index
               /\ PlayerList[k].score = expected[k].score

\* where the four strings of an info response start: after the type byte
\* (part_000:148) or after the protocol byte (server.js:159)
StringsStart == IF impl = "server" THEN 6 ELSE 5

\* the offset of the k-th null-terminated field, read byte by byte
RECURSIVE FieldStart(_, _, _)
FieldStart(data, start, k) ==
  IF k = 1 THEN start ELSE ScanZero(data, FieldStart(data, start, k - 1)) + 1

\* the text of the k-th field
FieldText(data, start, k) ==
  toString(Slice(data, FieldStart(data, start, k),
                 ScanZero(data, FieldStart(data, start, k))))

\* the four strings are in the buffer, terminators included, and fewer than
\* 7 bytes of numeric fields follow
NumericFieldsCut(data) ==
  /\ ScanZero(data, FieldStart(data, StringsStart, 4)) < Len(data)
  /\ Len(data) - FieldStart(data, StringsStart, 5) < 7

\* C14: an info response with a valid header whose buffer ends before all
\* numeric fields after the four strings are present decodes without error
\* into the name, map, folder and game of the packet, with the missing
\* numeric fields zero.
C14_TruncatedNumericFieldsDefault ==
  (/\ Decoded("info")
   /\ Len(received) >= 5
   /\ SubSeq(received, 1, 4) = Header
   /\ At(received, 4) = InfoType
   /\ NumericFieldsCut(received)) =>
    /\ decoded[1].out.ok
    /\ LET info == decoded[1].out.value
       IN /\ info.name = FieldText(received, StringsStart, 1)
          /\ info.map = FieldText(received, StringsStart, 2)
          /\ "folder" \in DOMAIN info =>
               info.folder = FieldText(received, StringsStart, 3)
          /\ info.game = FieldText(received, StringsStart, 4)
          /\ info.players = 0
          /\ info.maxPlayers = 0

\* C20: after a null-terminated string field has been read, the read
\* position is one byte past the field's 0x00 terminator, whatever bytes the
\* field holds (a name in multi-byte UTF-8 has fewer characters than bytes).
C20_StringAdvancesPastTerminator ==
  (/\ Decoded("string")
   /\ ScanZero(received, decoded[1].offset) < Len(received)) =>
    decoded[1].next = ScanZero(received, decoded[1].offset) + 1

\* the player query r is in AwaitingPlayers: challengeReceived (server.js)
\* or step = 'players' (part_000)
AwaitingPlayers(r) ==
  IF impl = "server" THEN r.challengeReceived ELSE r.step = "players"

ValidChallenge(data) == Len(data) >= 9 /\ At(data, 4) = 65

\* C15: the player query moves from AwaitingChallenge to AwaitingPlayers
\* exactly when a valid challenge response (type 0x41, length >= 9)
\* arrives, sending then one PlayerRequest with bytes 5..8 of that response;
\* it never returns to AwaitingChallenge, and the next datagram received in
\* AwaitingPlayers ends the query.
C15_ForwardOnlyChallengeFlow ==
  [][\A q \in QIds :
       q[2] = "players" =>
         /\ (~AwaitingPlayers(qs[q]) /\ AwaitingPlayers(qs'[q])) =>
              \E data \in Datagrams :
                /\ ValidChallenge(data)
                /\ Message(q, data)
                /\ qs'[q].sent =
                     Append(qs[q].sent, PlayerRequest(Slice(data, 5, 9)))
         /\ \A data \in Datagrams :
              (/\ Pending(q)
               /\ ~AwaitingPlayers(qs[q])
               /\ ValidChallenge(data)
               /\ Message(q, data)) =>
                /\ AwaitingPlayers(qs'[q])
                /\ qs'[q].sent =
                     Append(qs[q].sent, PlayerRequest(Slice(data, 5, 9)))
         /\ AwaitingPlayers(qs[q]) => AwaitingPlayers(qs'[q])
         /\ \A data \in Datagrams :
              (Pending(q) /\ AwaitingPlayers(qs[q]) /\ Message(q, data)) =>
                qs'[q].promise.state \in {"resolved", "rejected"}]_vars

\* C18: a player query succeeds with a player list only after it has sent
\* a PlayerRequest: a datagram received before that is never decoded as the
\* player response.
C18_PlayersOnlyAfterPlayerRequest ==
  \A q \in QIds :
    (q[2] = "players" /\ Succeeded(qs[q].promise)) => Len(qs[q].sent) = 2

\* C19: once a query has settled by another path than the timer its timer
\* is cancelled and its callback never runs; once it has settled through
\* the timer no later event changes the outcome or touches the socket.
C19_SettledQueryIsQuiet ==
  [][\A q \in QIds :
       /\ (Settled(q) /\ qs[q].promise.by # "timer") =>
            (qs[q].timer # "armed" /\ qs'[q].timer = qs[q].timer)
       /\ (Settled(q) /\ qs[q].promise.by = "timer") =>
            /\ qs'[q].promise = qs[q].promise
            /\ qs'[q].closes = qs[q].closes
            /\ qs'[q].sock = qs[q].sock
            /\ qs'[q].sent = qs[q].sent]_vars

\* a field of a result object that holds a value: neither null nor absent
NonNull(x) == x.t = "val"

\* C17: in a result object, for each of the two sub-queries, exactly one of
\* the value and the error is non-null: the value after a success, the
\* error after a failure.
C17_ValueXorError ==
  \A n \in Specs :
    task[n] = "done" =>
      /\ NonNull(result[n].serverInfo) # NonNull(result[n].errors.serverInfo)
      /\ NonNull(result[n].players) # NonNull(result[n].errors.players)
      /\ NonNull(result[n].serverInfo) <=> Succeeded(qs[<<n, "info">>].promise)
      /\ NonNull(result[n].players) <=> Succeeded(qs[<<n, "players">>].promise)

\* the sub-query q is in flight or was: its socket exists and its first
\* request was sent (a port that makes send throw leaves nothing to send)
InFlight(q) ==
  /\ qs[q].sock # "none"
  /\ qs[q].sent # <<>> \/ BadPort(servers[q[1]].port)

\* C16: within a batch window the info query and the player query of a spec
\* are in flight at the same time: both sockets are open and both first
\* requests are sent before either has settled; and the result of the spec
\* is produced only after both have settled.
C16_SubQueriesConcurrent ==
  /\ [](\A n \in Specs :
          (Running(n) /\ \E k \in Kinds : Settled(<<n, k>>)) =>
            \A k \in Kinds : InFlight(<<n, k>>))
  /\ [][\A n \in Specs :
          (task[n] # "done" /\ task'[n] = "done") =>
            \A k \in Kinds : Settled(<<n, k>>)]_vars

====
